---------------------------- MODULE Spec2Model ----------------------------
(***************************************************************************)
(* Model of server.py of the Event Planner tool server: the slot-filling   *)
(* dialogue step ask_for_details and the vendor search find_vendors.       *)
(*                                                                         *)
(* Text is a sequence of one-character strings, so that str.lower, the     *)
(* substring test `kw in s`, re.search and int() are computed on the       *)
(* characters.  An optional value is <<>> (None) or <<v>>.                 *)
(***************************************************************************)
EXTENDS Integers, Sequences, FiniteSets, TLC

VARIABLES
    pc,              \* "idle" | "returned" (ask_for_details) | "answered" (find_vendors)
    event_details,   \* the EventDetails record the caller threads through the calls
    user_input,      \* raw user_input of the call just served
    prev_details,    \* event_details as passed to the call just served
    budget_amount,   \* ask_for_details' local budget_amount when the call ended
    result,          \* string returned by the last ask_for_details call
    response,        \* what the search provider did in the find_vendors call
    vendor_list,     \* find_vendors' local vendor_list when the call ended
    returned,        \* list returned by find_vendors (None if it raised)
    errors,          \* errors raised to the caller by the find_vendors call
    searches         \* number of provider searches made by the find_vendors call

vars == <<pc, event_details, user_input, prev_details, budget_amount, result,
          response, vendor_list, returned, errors, searches>>

dialogueVars == <<event_details, user_input, prev_details, budget_amount, result>>
vendorVars == <<response, vendor_list, returned, errors, searches>>

-----------------------------------------------------------------------------
(* Bounds *)

\* an utterance is at most MaxFrags fragments of Fragments, joined by spaces
MaxFrags == 2
\* the provider returns at most MaxLocal local and MaxOrganic organic results
MaxLocal == 3
MaxOrganic == 4

-----------------------------------------------------------------------------
(* Python values *)

None == <<>>
Some(v) == <<v>>
Val(o) == o[1]

\* `not x` for Optional[str] and Optional[int]
NotStr(o) == o = None \/ o = Some("")
NotInt(o) == o = None \/ o = Some(0)

Min(S) == CHOOSE x \in S : \A y \in S : x <= y
Max(S) == CHOOSE x \in S : \A y \in S : x >= y

-----------------------------------------------------------------------------
(* Text primitives *)

UpperAlpha == <<"A","B","C","D","E","F","G","H","I","J","K","L","M","N","O","P","Q","R","S","T","U","V","W","X","Y","Z">>
LowerAlpha == <<"a","b","c","d","e","f","g","h","i","j","k","l","m","n","o","p","q","r","s","t","u","v","w","x","y","z">>
Digits == <<"0","1","2","3","4","5","6","7","8","9">>
Whitespace == {" ", "\t", "\n"}

DigitSet == {Digits[i] : i \in 1..Len(Digits)}
IsDigit(c) == c \in DigitSet
IsSpace(c) == c \in Whitespace
ValueOf == [c \in DigitSet |-> (CHOOSE i \in 1..Len(Digits) : Digits[i] = c) - 1]
DigitVal(c) == ValueOf[c]

UpperSet == {UpperAlpha[i] : i \in 1..Len(UpperAlpha)}
LowerOf ==
    [c \in UpperSet |-> LowerAlpha[CHOOSE i \in 1..Len(UpperAlpha) : UpperAlpha[i] = c]]
LowerChar(c) == IF c \in UpperSet THEN LowerOf[c] ELSE c

\* str.lower()
lower(s) == [i \in 1..Len(s) |-> LowerChar(s[i])]

\* s[p:p+len(t)] == t
HasAt(s, p, t) ==
    /\ p >= 1
    /\ p + Len(t) - 1 <= Len(s)
    /\ SubSeq(s, p, p + Len(t) - 1) = t

\* `t in s`
Contains(s, t) == \E p \in 1..(Len(s) + 1) : HasAt(s, p, t)

\* int(ds) of a digit run
RECURSIVE int(_)
int(ds) ==
    IF ds = <<>> THEN 0
    ELSE 10 * int(SubSeq(ds, 1, Len(ds) - 1)) + DigitVal(ds[Len(ds)])

\* last index of the run of digits that starts at i (greedy \d+)
RECURSIVE DigitsEnd(_, _)
DigitsEnd(s, i) ==
    IF i < Len(s) /\ IsDigit(s[i + 1]) THEN DigitsEnd(s, i + 1) ELSE i

\* first index at or after p that holds no whitespace (greedy \s*)
RECURSIVE SkipSpace(_, _)
SkipSpace(s, p) ==
    IF p <= Len(s) /\ IsSpace(s[p]) THEN SkipSpace(s, p + 1) ELSE p

\* r'(\d+)\s*<lit>' matches at position i; lit starts with a letter, so
\* neither \d+ nor \s* can give characters back
MatchAt(s, i, lit) ==
    /\ IsDigit(s[i])
    /\ HasAt(s, SkipSpace(s, DigitsEnd(s, i) + 1), lit)

\* re.search(r'(\d+)\s*<lit>', s): group(1) of the leftmost match, or None
re_search(s, lit) ==
    LET starts == {i \in 1..Len(s) : MatchAt(s, i, lit)}
        first == Min(starts)
    IN  IF starts = {} THEN None
        ELSE Some(SubSeq(s, first, DigitsEnd(s, first)))

-----------------------------------------------------------------------------
(* Reference data: the built-in catalogs used when the JSON files are absent *)

event_data == <<
    [name |-> "Wedding", keywords |-> << <<"w","e","d","d","i","n","g">>, <<"m","a","r","r","i","a","g","e">> >>],
    [name |-> "Birthday Party", keywords |-> << <<"b","i","r","t","h","d","a","y">> >>],
    [name |-> "Festival Celebration",
     keywords |-> << <<"f","e","s","t","i","v","a","l">>, <<"d","i","w","a","l","i">>, <<"h","o","l","i">> >>] >>

location_data == <<
    [name |-> "Tiruchirappalli, Tamil Nadu",
     keywords |-> << <<"t","i","r","u","c","h","i","r","a","p","p","a","l","l","i">>, <<"t","r","i","c","h","y">> >>],
    [name |-> "Delhi, NCR", keywords |-> << <<"d","e","l","h","i">>, <<"n","c","r">> >>],
    [name |-> "Mumbai, Maharashtra", keywords |-> << <<"m","u","m","b","a","i">> >>] >>

\* indexes of the catalog entries one of whose keywords occurs in s
Hits(catalog, s) ==
    {i \in 1..Len(catalog) :
        \E k \in 1..Len(catalog[i].keywords) : Contains(s, catalog[i].keywords[k])}

\* the nested catalog loop with its two breaks: the first entry, in catalog
\* order, that has a keyword in s gives its name
ScanLast(catalog, s) ==
    LET hits == Hits(catalog, s)
    IN  IF hits = {} THEN None ELSE Some(catalog[Max(hits)].name)

Scan(catalog, s) ==
    LET hits == Hits(catalog, s)
    IN  IF hits = {} THEN None ELSE Some(catalog[Min(hits)].name)

-----------------------------------------------------------------------------
(* ask_for_details: extraction *)

NoDetails ==
    [event_type |-> None, location |-> None, guest_count |-> None,
     budget_range |-> None]

\* event type: scanned only while the field is empty
ExtractEventType(ed, s) ==
    IF NotStr(ed.event_type)
    THEN LET found == Scan(event_data, s)
         IN  IF found # None THEN found ELSE ed.event_type
    ELSE ed.event_type

\* location: scanned only while the field is empty
ExtractLocation(ed, s) ==
    IF NotStr(ed.location)
    THEN LET found == Scan(location_data, s)
         IN  IF found # None THEN found ELSE ed.location
    ELSE ed.location

\* guest count: `if not event_details.guest_count` lets a stored 0 through
ExtractGuestCountNoGuard(ed, s) ==
    LET match == re_search(s, <<"g","u","e","s","t">>)
    IN  IF match # None THEN Some(int(Val(match))) ELSE ed.guest_count

ExtractGuestCount(ed, s) ==
    IF NotInt(ed.guest_count)
    THEN LET match == re_search(s, <<"g","u","e","s","t">>)
         IN  IF match # None THEN Some(int(Val(match))) ELSE ed.guest_count
    ELSE ed.guest_count

\* one `match = re.search(...); if match: budget_amount = int(...) * unit`
TryPattern(amount, s, lit, unit) ==
    LET match == re_search(s, lit)
    IN  IF match # None THEN Some(int(Val(match)) * unit) ELSE amount

\* the local budget_amount after the three patterns; a later pattern is tried
\* when `not budget_amount`, i.e. when the amount so far is None or 0
BudgetAmount(s) ==
    LET a1 == TryPattern(None, s, <<"k">>, 1000)
        a2 == IF NotInt(a1) THEN TryPattern(a1, s, <<"l","a","k","h">>, 100000) ELSE a1
        a3 == IF NotInt(a2) THEN TryPattern(a2, s, <<"c","r","o","r","e">>, 10000000) ELSE a2
    IN  a3

\* `if budget_amount:` and the three buckets
Bucket(amount) ==
    IF NotInt(amount) THEN None
    ELSE IF Val(amount) < 50000 THEN Some("low")
    ELSE IF Val(amount) < 500000 THEN Some("moderate")
    ELSE Some("high")

\* the keyword scan that runs while budget_range is still empty
BudgetKeyword(s) ==
    IF Contains(s, <<"l","o","w"," ","b","u","d","g","e","t">>) \/ Contains(s, <<"a","f","f","o","r","d","a","b","l","e">>) THEN Some("low")
    ELSE IF Contains(s, <<"m","o","d","e","r","a","t","e">>) THEN Some("moderate")
    ELSE IF Contains(s, <<"h","i","g","h"," ","b","u","d","g","e","t">>) \/ Contains(s, <<"l","a","v","i","s","h">>) THEN Some("high")
    ELSE None

ExtractBudget(ed, s) ==
    IF ~NotStr(ed.budget_range) THEN ed.budget_range
    ELSE LET bucketed == Bucket(BudgetAmount(s))
         IN  IF ~NotStr(bucketed) THEN bucketed ELSE BudgetKeyword(s)

\* the record after the four extraction blocks
Extract(ed, s) ==
    [event_type |-> ExtractEventType(ed, s),
     location |-> ExtractLocation(ed, s),
     guest_count |-> ExtractGuestCount(ed, s),
     budget_range |-> ExtractBudget(ed, s)]

-----------------------------------------------------------------------------
(* ask_for_details: the returned string *)

EventTypePrompt ==
    <<"What kind of event are you planning? (e.g., Wedding, Birthday, or a Festival like Diwali)">>
LocationPrompt(event_type) ==
    <<"Got it, a ", event_type, ". Where will this event be held?">>
GuestCountPrompt ==
    <<"And about how many guests will be attending? Please provide a number.">>
BudgetPrompt ==
    <<"To help me plan, what's your budget like? (e.g., low, moderate, high, or a specific amount like 50k or 1 lakh)">>
Confirmation ==
    <<"Thank you! I have all the details. I will now create a personalized plan for you.">>

PromptGuestsFirst(ed) ==
    IF NotStr(ed.event_type) THEN EventTypePrompt
    ELSE IF NotInt(ed.guest_count) THEN GuestCountPrompt
    ELSE IF NotStr(ed.location) THEN LocationPrompt(Val(ed.event_type))
    ELSE IF NotStr(ed.budget_range) THEN BudgetPrompt
    ELSE Confirmation

Prompt(ed) ==
    IF NotStr(ed.event_type) THEN EventTypePrompt
    ELSE IF NotStr(ed.location) THEN LocationPrompt(Val(ed.event_type))
    ELSE IF NotInt(ed.guest_count) THEN GuestCountPrompt
    ELSE IF NotStr(ed.budget_range) THEN BudgetPrompt
    ELSE Confirmation

-----------------------------------------------------------------------------
(* Utterances *)

Fragments == {
    <<"W","e","d","d","i","n","g">>, <<"h","o","l","i","d","a","y">>,
    <<"t","r","i","c","h","y">>, <<"D","e","l","h","i">>,
    <<"0"," ","g","u","e","s","t","s">>, <<"5"," ","g","u","e","s","t">>,
    <<"0","k">>, <<"4","9","k">>, <<"5","0","K">>, <<"2"," ","l","a","k","h">>, <<"1"," ","c","r","o","r","e">>,
    <<"l","a","v","i","s","h">> }

RECURSIVE Join(_)
Join(fs) ==
    IF Len(fs) = 1 THEN fs[1]
    ELSE Join(SubSeq(fs, 1, Len(fs) - 1)) \o << " " >> \o fs[Len(fs)]

Utterances ==
    {Join(fs) : fs \in UNION {[1..n -> Fragments] : n \in 1..MaxFrags}}

-----------------------------------------------------------------------------
(* The dialogue: the orchestrator calls ask_for_details turn after turn *)

Init ==
    /\ pc = "idle"
    /\ event_details = NoDetails
    /\ user_input = None
    /\ prev_details = NoDetails
    /\ budget_amount = None
    /\ result = None
    /\ response = None
    /\ vendor_list = None
    /\ returned = None
    /\ errors = <<>>
    /\ searches = 0

\* the whole handler, called with the threaded record and the message u
ask_for_details(u) ==
    /\ LET s == lower(u)
           ed == Extract(event_details, s)
       IN  /\ event_details' = ed
           /\ result' = Prompt(ed)
           /\ budget_amount' =
                 IF NotStr(event_details.budget_range) THEN BudgetAmount(s) ELSE None
    /\ user_input' = u
    /\ prev_details' = event_details
    /\ pc' = "returned"
    /\ UNCHANGED vendorVars

\* the orchestrator sends the record it holds and the user's new message
Turn ==
    /\ pc = "idle"
    /\ \E u \in Utterances : ask_for_details(u)

\* the orchestrator keeps the updated record for the next turn
NextTurn ==
    /\ pc = "returned"
    /\ pc' = "idle"
    /\ user_input' = None
    /\ prev_details' = NoDetails
    /\ budget_amount' = None
    /\ UNCHANGED <<event_details, result>>
    /\ UNCHANGED vendorVars

Next ==
    \/ Turn
    \/ NextTurn

Spec == Init /\ [][Next]_vars

-----------------------------------------------------------------------------
(* find_vendors *)

\* a result item: a dict whose keys may be absent (None), or, when the
\* provider's payload is malformed, something that is not a dict
Item(title, link, rating, reviews, snippet) ==
    [isdict |-> TRUE, title |-> title, link |-> link, rating |-> rating,
     reviews |-> reviews, snippet |-> snippet]
NotADict ==
    [isdict |-> FALSE, title |-> None, link |-> None, rating |-> None,
     reviews |-> None, snippet |-> None]

Items == {
    Item(Some("Studio A"), Some("a.in"), Some("4.5"), Some("120"), None),
    Item(None, Some("b.in"), None, None, Some("banquet hall")),
    NotADict }

SeqsUpTo(S, n) == UNION {[1..m -> S] : m \in 0..n}
LocalResults == SeqsUpTo(Items, MaxLocal)
OrganicResults == SeqsUpTo(Items, MaxOrganic)

\* what the provider does: the search raises, or it returns a payload whose
\* local_results is a list (an absent key reads as the empty list) or not
SearchRaises ==
    [raises |-> Some("ConnectionError"), local_is_list |-> TRUE,
     local_results |-> <<>>, organic_results |-> <<>>]
Payload(local_is_list, local_results, organic_results) ==
    [raises |-> None, local_is_list |-> local_is_list,
     local_results |-> local_results, organic_results |-> organic_results]

\* item.get(key, "N/A")
get(o) == IF o = None THEN "N/A" ELSE Val(o)

vendor_data(item) ==
    [name |-> get(item.title), link |-> get(item.link),
     rating |-> get(item.rating), reviews |-> get(item.reviews),
     snippet |-> get(item.snippet)]

\* the for loop over the concatenated results: item.get raises on a non-dict,
\* the loop breaks once five records are built
RECURSIVE LoopNoBreak(_, _, _)
LoopNoBreak(items, i, list) ==
    IF i > Len(items) THEN [raised |-> None, list |-> list]
    ELSE IF ~items[i].isdict
         THEN [raised |-> Some("AttributeError"), list |-> list]
         ELSE LoopNoBreak(items, i + 1, Append(list, vendor_data(items[i])))

RECURSIVE Loop(_, _, _)
Loop(items, i, list) ==
    IF i > Len(items) THEN [raised |-> None, list |-> list]
    ELSE IF ~items[i].isdict
         THEN [raised |-> Some("AttributeError"), list |-> list]
         ELSE LET appended == Append(list, vendor_data(items[i]))
              IN  IF Len(appended) >= 5
                  THEN [raised |-> None, list |-> appended]
                  ELSE Loop(items, i + 1, appended)

\* the try block: the exception raised in it, if any, and vendor_list so far
TryBlock(r) ==
    IF r.raises # None THEN [raised |-> r.raises, list |-> None]
    ELSE IF ~r.local_is_list THEN [raised |-> Some("TypeError"), list |-> None]
    ELSE Loop(r.local_results \o r.organic_results, 1, <<>>)

McpError(e) ==
    [code |-> "INVALID_PARAMS", message |-> <<"Failed to find vendors: ", e>>]

\* the outcome of a call: the list returned (None if the call raised) and the
\* errors raised to the caller
OutcomeReturnsPartial(r) ==
    LET t == TryBlock(r)
    IN  IF t.raised = None
        THEN [list |-> t.list, returned |-> Some(t.list), errors |-> <<>>]
        ELSE [list |-> t.list, returned |-> Some(t.list),
              errors |-> <<McpError(Val(t.raised))>>]

Outcome(r) ==
    LET t == TryBlock(r)
    IN  IF t.raised = None
        THEN [list |-> t.list, returned |-> Some(t.list), errors |-> <<>>]
        ELSE [list |-> t.list, returned |-> None,
              errors |-> <<McpError(Val(t.raised))>>]

\* the whole handler, with the provider behaving as r: one search, the loop,
\* the except clause
find_vendors(r) ==
    /\ LET out == Outcome(r)
       IN  /\ vendor_list' = out.list
           /\ returned' = out.returned
           /\ errors' = out.errors
    /\ searches' = searches + 1
    /\ response' = Some(r)
    /\ pc' = "answered"
    /\ UNCHANGED dialogueVars

\* the search raises
SearchFails ==
    /\ pc = "idle"
    /\ find_vendors(SearchRaises)

\* the search returns a payload whose local_results is not a list
SearchMalformed ==
    /\ pc = "idle"
    /\ \E o \in OrganicResults : find_vendors(Payload(FALSE, <<>>, o))

\* the search returns local and organic result lists
SearchAnswers ==
    /\ pc = "idle"
    /\ \E l \in LocalResults, o \in OrganicResults : find_vendors(Payload(TRUE, l, o))

\* the caller has its answer; nothing of the call is kept
Answered ==
    /\ pc = "answered"
    /\ pc' = "idle"
    /\ response' = None
    /\ vendor_list' = None
    /\ returned' = None
    /\ errors' = <<>>
    /\ searches' = 0
    /\ UNCHANGED dialogueVars

NextVendors ==
    \/ SearchFails
    \/ SearchMalformed
    \/ SearchAnswers
    \/ Answered

SpecVendors == Init /\ [][NextVendors]_vars

-----------------------------------------------------------------------------
(* Properties of ask_for_details (checked under Spec) *)

\* the lowercased utterance of the call just served
Said == lower(user_input)

\* some keyword of entry i of the catalog occurs in s
Mentions(catalog, i, s) ==
    \E k \in 1..Len(catalog[i].keywords) : Contains(s, catalog[i].keywords[k])

\* C1: once event_type, location, guest_count or budget_range holds a value,
\* no later call changes or clears that field.
C1_WriteOnce ==
    [][/\ event_details.event_type # None
          => event_details'.event_type = event_details.event_type
       /\ event_details.location # None
          => event_details'.location = event_details.location
       /\ event_details.guest_count # None
          => event_details'.guest_count = event_details.guest_count
       /\ event_details.budget_range # None
          => event_details'.budget_range = event_details.budget_range]_vars

\* the prompt of the first field without a value, in the order event type,
\* location, guest count, budget; the confirmation when every field has one
FirstMissingPrompt(ed) ==
    IF ed.event_type = None THEN EventTypePrompt
    ELSE IF ed.location = None THEN LocationPrompt(Val(ed.event_type))
    ELSE IF ed.guest_count = None THEN GuestCountPrompt
    ELSE IF ed.budget_range = None THEN BudgetPrompt
    ELSE Confirmation

\* C2: the string a call returns is the prompt of the first field still
\* missing from the record after extraction, in the fixed order, and it is the
\* confirmation exactly when no field is missing.
C2_PromptSelection ==
    pc = "returned" =>
        /\ result = FirstMissingPrompt(event_details)
        /\ result = Confirmation <=>
              /\ event_details.event_type # None
              /\ event_details.location # None
              /\ event_details.guest_count # None
              /\ event_details.budget_range # None

\* C3: guest_count is unset or a positive integer in every reachable state.
C3_GuestCountPositive ==
    event_details.guest_count = None \/ Val(event_details.guest_count) >= 1

\* C4: a call that derives a numeric amount while budget_range is empty sets
\* budget_range to low below 50,000, to moderate from 50,000 up to but not
\* including 500,000, and to high from 500,000 on.
C4_Bucketing ==
    (pc = "returned" /\ prev_details.budget_range = None /\ budget_amount # None)
    => event_details.budget_range =
          IF Val(budget_amount) < 50000 THEN Some("low")
          ELSE IF Val(budget_amount) < 500000 THEN Some("moderate")
          ELSE Some("high")

\* C5: with budget_range empty, the first of the patterns <digits>k,
\* <digits> lakh, <digits> crore that matches decides the amount alone (a later
\* pattern is not consulted), and the keyword scan decides budget_range only
\* when none of the three matched.
C5_Precedence ==
    (pc = "returned" /\ prev_details.budget_range = None) =>
        LET k == re_search(Said, <<"k">>)
            lakh == re_search(Said, <<"l","a","k","h">>)
            crore == re_search(Said, <<"c","r","o","r","e">>)
            amount == IF k # None THEN Some(int(Val(k)) * 1000)
                      ELSE IF lakh # None THEN Some(int(Val(lakh)) * 100000)
                      ELSE IF crore # None THEN Some(int(Val(crore)) * 10000000)
                      ELSE None
            bucket == IF Val(amount) < 50000 THEN Some("low")
                      ELSE IF Val(amount) < 500000 THEN Some("moderate")
                      ELSE Some("high")
        IN  /\ budget_amount = amount
            /\ amount # None => event_details.budget_range \in {None, bucket}

\* C6 as stated: a call on a record with the field empty sets it to the name of
\* the entry that owns a keyword occurring in the utterance, whichever keyword
\* that is, and a second call with the same utterance leaves it unchanged.
C6_OwnerOfAnyKeyword ==
    pc = "returned" =>
        LET s == Said
            again == Extract(event_details, s)
        IN  /\ prev_details.event_type = None =>
                  \A i \in 1..Len(event_data) :
                      Mentions(event_data, i, s)
                      => /\ event_details.event_type = Some(event_data[i].name)
                         /\ again.event_type = event_details.event_type
            /\ prev_details.location = None =>
                  \A i \in 1..Len(location_data) :
                      Mentions(location_data, i, s)
                      => /\ event_details.location = Some(location_data[i].name)
                         /\ again.location = event_details.location

\* C6, amended: the field is set to the name of the first entry, in catalog
\* order, one of whose keywords occurs in the lowercased utterance, and a
\* second call with the same utterance leaves it unchanged.
C6_FirstEntryWins ==
    pc = "returned" =>
        LET s == Said
            again == Extract(event_details, s)
        IN  /\ prev_details.event_type = None =>
                  \A i \in 1..Len(event_data) :
                      (/\ Mentions(event_data, i, s)
                       /\ \A j \in 1..(i - 1) : ~Mentions(event_data, j, s))
                      => /\ event_details.event_type = Some(event_data[i].name)
                         /\ again.event_type = event_details.event_type
            /\ prev_details.location = None =>
                  \A i \in 1..Len(location_data) :
                      (/\ Mentions(location_data, i, s)
                       /\ \A j \in 1..(i - 1) : ~Mentions(location_data, j, s))
                      => /\ event_details.location = Some(location_data[i].name)
                         /\ again.location = event_details.location

\* an utterance with a festival keyword and a wedding keyword has set the
\* event type of an empty record to the earlier catalog entry, Wedding
C6_Witness ==
    /\ pc = "returned"
    /\ prev_details.event_type = None
    /\ Contains(Said, <<"h","o","l","i">>)
    /\ Contains(Said, <<"w","e","d","d","i","n","g">>)
    /\ event_details.event_type = Some("Wedding")

OnlyEventType(ed) ==
    /\ ed.event_type # None
    /\ ed.location = None
    /\ ed.guest_count = None
    /\ ed.budget_range = None

\* C7 as stated: a call on a record with only event_type set returns the
\* location prompt, whatever the utterance.
C7_AlwaysLocationPrompt ==
    (pc = "returned" /\ OnlyEventType(prev_details))
    => result = LocationPrompt(Val(prev_details.event_type))

\* C7, amended: a call on a record with only event_type set never returns the
\* event-type prompt, and returns the location prompt exactly when the
\* lowercased utterance contains no location keyword.
C7_LocationPromptUnlessLocated ==
    (pc = "returned" /\ OnlyEventType(prev_details)) =>
        LET s == Said
        IN  /\ result # EventTypePrompt
            /\ result = LocationPrompt(Val(prev_details.event_type))
               <=> \A i \in 1..Len(location_data) : ~Mentions(location_data, i, s)

\* a record holding only "Wedding" was asked about again with another event
\* keyword and a guest count, and the location prompt came back
C7_Witness ==
    /\ pc = "returned"
    /\ OnlyEventType(prev_details)
    /\ prev_details.event_type = Some("Wedding")
    /\ Contains(Said, <<"h","o","l","i">>)
    /\ event_details.guest_count # None
    /\ result = LocationPrompt("Wedding")

\* C10: once a call has returned the confirmation, every later call returns
\* it again and leaves the four fields unchanged.
C10_CompletionAbsorbing ==
    [][result = Confirmation
       => (result' = Confirmation /\ event_details' = event_details)]_vars

\* a call on a record that had already been confirmed, with an utterance that
\* carries another guest count and another budget, returned the confirmation
C10_Witness ==
    /\ pc = "returned"
    /\ result = Confirmation
    /\ Prompt(prev_details) = Confirmation
    /\ re_search(Said, <<"g","u","e","s","t">>) # None
    /\ Some(int(Val(re_search(Said, <<"g","u","e","s","t">>)))) # prev_details.guest_count
    /\ BudgetAmount(Said) # None
    /\ event_details = prev_details

-----------------------------------------------------------------------------
(* Properties of find_vendors (checked under SpecVendors) *)

\* the provider's results in provider order, local before organic
Provided == Val(response).local_results \o Val(response).organic_results

Succeeded == pc = "answered" /\ errors = <<>>

\* the call failed: the search raised, local_results was no list, or one of
\* the results the loop reached was no dict
Failure ==
    IF Val(response).raises # None THEN Val(response).raises
    ELSE IF ~Val(response).local_is_list THEN Some("TypeError")
    ELSE IF \E i \in 1..Len(Provided) : i <= 5 /\ ~Provided[i].isdict
         THEN Some("AttributeError")
    ELSE None

\* C8: a successful call returns min(5, L+O) records, the first min(5, L+O)
\* of the local results followed by the organic results, in provider order.
C8_FirstFiveInOrder ==
    Succeeded =>
        /\ returned # None
        /\ Len(Val(returned)) = Min({5, Len(Provided)})
        /\ \A i \in 1..Len(Val(returned)) :
              /\ Val(returned)[i].name = get(Provided[i].title)
              /\ Val(returned)[i].link = get(Provided[i].link)
              /\ Val(returned)[i].rating = get(Provided[i].rating)
              /\ Val(returned)[i].reviews = get(Provided[i].reviews)
              /\ Val(returned)[i].snippet = get(Provided[i].snippet)

\* 3 local and 4 organic results, not all alike, came back as the 3 local
\* ones followed by the first 2 organic ones
C8_Witness ==
    /\ Succeeded
    /\ Len(Val(response).local_results) = 3
    /\ Len(Val(response).organic_results) = 4
    /\ Val(response).local_results[1] # Val(response).local_results[2]
    /\ Val(response).organic_results[1] # Val(response).organic_results[2]
    /\ Val(response).organic_results[2] # Val(response).organic_results[3]
    /\ Len(Val(returned)) = 5
    /\ Val(returned)[3] = vendor_data(Val(response).local_results[3])
    /\ Val(returned)[5] = vendor_data(Val(response).organic_results[2])

=============================================================================
